---- MODULE Spec2Model ----
(***************************************************************************)
(* A model of the claude-code-docs installer (install.py), uninstaller     *)
(* (uninstall.py) and helper (claude-docs-helper.py): its passive update   *)
(* hook, its interactive freshness check and its document lookup.          *)
(*                                                                         *)
(* The programs share no in-process state: they meet on the filesystem     *)
(* (installation directories, the settings file, the command file, the     *)
(* last-check marker) and on the outcomes of the git commands they run.    *)
(* Each git call, each prompt and each filesystem mutation is one step.    *)
(* Strings that the code searches (paths, hook commands, status lines) are *)
(* sequences of tokens, and the substring test `a in b` is the contiguous  *)
(* subsequence test Contains(b, a).                                        *)
(***************************************************************************)
EXTENDS Integers, Sequences, FiniteSets, TLC

\* ------------------------------------------------------------ bounds
\* Number of prior installation directories besides the canonical one.
MaxOld == 1
\* Longest hooks.PreToolUse list in an initial settings file, and largest
\* number of documents in docs/.
MaxEntries == 2
\* The clock stops at MaxTime hours.
MaxTime == 5
\* The remote branch gains at most MaxCommits commits.
MaxCommits == 2
\* Number of hook-check (or freshness check) invocations in sequence.
MaxInvocations == 2

\* ------------------------------------------------------------ strings
\* install.py:359 / uninstall.py:145: the marker substring.
Marker == "claude-code-docs"

\* `sub in s` on token sequences.
Contains(s, sub) ==
    \E i \in 1..(Len(s) - Len(sub) + 1) : SubSeq(s, i, i + Len(sub) - 1) = sub

\* str.lower() on the answers the operator can give.
Lower(s) == IF s = "Y" THEN "y" ELSE IF s = "N" THEN "n" ELSE s

\* What input() can yield: a line, or KeyboardInterrupt ("^C").
Interrupt == "^C"
Answers == {"y", "Y", "n", ""}
Inputs == Answers \cup {Interrupt}

\* ------------------------------------------------------------ directories
\* install.py:29: the canonical directory; the others are prior installations.
INSTALL_DIR == 0
OldDirs == 1..MaxOld
Dirs == {INSTALL_DIR} \cup OldDirs
\* No directory: the value of a path that names none.
NoDir == INSTALL_DIR - 1

OldRoot == <<"/srv/a/", "/srv/b/", "/srv/c/">>
DirPath(d) ==
    IF d = INSTALL_DIR THEN <<"/home/u/.", Marker>> ELSE <<OldRoot[d], Marker>>

\* Paths of a working copy that `git status --porcelain` can list.
ManifestPath == <<"docs/", "docs_manifest.json">>
HooksDoc == <<"docs/", "hooks.md">>
Lookalike == <<"docs/", "docs_manifest.json", ".orig">>
Paths == {ManifestPath, HooksDoc, Lookalike}
\* Lookalike is an untracked file; the other two are tracked files.
Tracked == {ManifestPath, HooksDoc}
Untracked == Paths \ Tracked

\* A porcelain status line: two status letters, then the path.
StatusLine(p) == <<IF p \in Tracked THEN " M " ELSE "?? ">> \o p
StatusOutput(changes) == {StatusLine(p) : p \in changes}

AbsentDir == [kind |-> "absent", changes |-> {}]
PlainDir == [kind |-> "plain", changes |-> {}]
Repo(ch) == [kind |-> "repo", changes |-> ch]

\* ------------------------------------------------------------ settings
\* install.py:254-262: the hook command names the installation directory.
HookCommandFor(d) ==
    <<"python \"">> \o DirPath(d) \o <<"/claude-docs-helper.py\" hook-check">>
get_hook_command == HookCommandFor(INSTALL_DIR)

UserCmd == <<"eslint --fix">>

\* install.py:364-370: the entry the installer appends.
NewEntry == [matcher |-> "Read", hooks |-> <<get_hook_command>>]

UserEntry == [matcher |-> "Write", hooks |-> <<UserCmd>>]
MixedEntry == [matcher |-> "Edit", hooks |-> <<UserCmd, HookCommandFor(INSTALL_DIR)>>]
StaleEntry(d) == [matcher |-> "Read", hooks |-> <<HookCommandFor(d)>>]
InitEntries == {UserEntry, MixedEntry} \cup {StaleEntry(d) : d \in Dirs}

\* The settings file: absent, not valid JSON, or a JSON object.  `other` is
\* a top-level key of the host tool, `post` another event list under hooks.
NoSettings ==
    [st |-> "absent", other |-> FALSE, hasHooks |-> FALSE, post |-> FALSE,
     hasPre |-> FALSE, pre |-> <<>>]
Malformed == [NoSettings EXCEPT !.st = "malformed"]
EmptyJson == [NoSettings EXCEPT !.st = "json"]
Json(other, post, pre) ==
    [st |-> "json", other |-> other, hasHooks |-> TRUE, post |-> post,
     hasPre |-> TRUE, pre |-> pre]

\* install.py:359-360 / uninstall.py:145-146: any(marker in command ...).
EntryHasMarker(e) ==
    \E i \in 1..Len(e.hooks) : Contains(e.hooks[i], <<Marker>>)

RECURSIVE KeepUnmarked(_)
KeepUnmarked(pre) ==
    IF pre = <<>> THEN <<>>
    ELSE IF EntryHasMarker(Head(pre)) THEN KeepUnmarked(Tail(pre))
         ELSE <<Head(pre)>> \o KeepUnmarked(Tail(pre))

\* Mutant of LoadOrEmpty: the malformed content is kept.
MutLoadAsIs(s) == s

\* install.py:337-347: load the settings, or start from {}.
LoadOrEmpty(s) == IF s.st = "json" THEN s ELSE EmptyJson

\* Mutant of SetupHooksResult: the old entries are not removed first.
MutSetupHooksAppendOnly(s) ==
    LET l == LoadOrEmpty(s)
        p == IF l.hasHooks /\ l.hasPre THEN l.pre ELSE <<>>
    IN [l EXCEPT !.hasHooks = TRUE, !.hasPre = TRUE, !.pre = p \o <<NewEntry>>]

\* install.py:349-374: the settings the installer writes.
SetupHooksResult(s) ==
    LET l == LoadOrEmpty(s)
        h == IF l.hasHooks THEN l
             ELSE [l EXCEPT !.hasHooks = TRUE, !.post = FALSE,
                            !.hasPre = FALSE, !.pre = <<>>]
        p == IF h.hasPre THEN h.pre ELSE <<>>
    IN [h EXCEPT !.hasPre = TRUE, !.pre = KeepUnmarked(p) \o <<NewEntry>>]

\* uninstall.py:141-158: the settings the uninstaller writes when the JSON
\* object has hooks.PreToolUse.
RemoveHooksResult(s) ==
    LET kept == KeepUnmarked(s.pre)
        a == [s EXCEPT !.pre = kept, !.hasPre = (kept # <<>>)]
    IN IF ~a.hasPre /\ ~a.post
       THEN [a EXCEPT !.hasHooks = FALSE]
       ELSE a

\* ------------------------------------------------------------ discovery
RECURSIVE Commands(_)
Commands(pre) ==
    IF pre = <<>> THEN <<>> ELSE Head(pre).hooks \o Commands(Tail(pre))

\* The directory a command names (the regular expressions of
\* install.py:111 and uninstall.py:73 reduced to: the path up to the marker).
CmdDir(cmd) ==
    IF \E d \in Dirs : Contains(cmd, DirPath(d))
    THEN CHOOSE d \in Dirs : Contains(cmd, DirPath(d))
    ELSE NoDir

RECURSIVE MarkedDirs(_)
MarkedDirs(cmds) ==
    IF cmds = <<>> THEN <<>>
    ELSE IF Contains(Head(cmds), <<Marker>>) /\ CmdDir(Head(cmds)) # NoDir
         THEN <<CmdDir(Head(cmds))>> \o MarkedDirs(Tail(cmds))
         ELSE MarkedDirs(Tail(cmds))

SettingsDirs(s) ==
    IF s.st = "json" /\ s.hasHooks /\ s.hasPre
    THEN MarkedDirs(Commands(s.pre)) ELSE <<>>

RECURSIVE Dedup(_, _)
Dedup(seq, seen) ==
    IF seq = <<>> THEN <<>>
    ELSE IF Head(seq) \in seen THEN Dedup(Tail(seq), seen)
         ELSE <<Head(seq)>> \o Dedup(Tail(seq), seen \cup {Head(seq)})

RECURSIVE Existing(_, _)
Existing(seq, ds) ==
    IF seq = <<>> THEN <<>>
    ELSE IF ds[Head(seq)].kind # "absent"
         THEN <<Head(seq)>> \o Existing(Tail(seq), ds)
         ELSE Existing(Tail(seq), ds)

\* install.py:75-130.  cwd is the directory the installer is started in.
find_existing_installations(ds, cf, s, cwd) ==
    LET fromCmd == IF cf # NoDir THEN <<cf>> ELSE <<>>
        fromCwd == IF cwd # NoDir /\ cwd # INSTALL_DIR /\ ds[cwd].kind = "repo"
                   THEN <<cwd>> ELSE <<>>
        found == Existing(fromCmd \o SettingsDirs(s), ds) \o fromCwd
    IN Dedup(found, {INSTALL_DIR})

\* uninstall.py:37-95.
find_all_installations(ds, cf, s) ==
    LET fromCmd == IF cf # NoDir THEN <<cf>> ELSE <<>>
    IN Dedup(Existing(fromCmd \o SettingsDirs(s) \o <<INSTALL_DIR>>, ds), {})

\* ------------------------------------------------------------ state
VARIABLES
    dirs,        \* the directories: canonical and prior installations
    cmdFile,     \* ~/.claude/commands/docs.md: NoDir (absent) or the directory it names
    settings,    \* ~/.claude/settings.json
    backup,      \* ~/.claude/settings.json.backup
    pc,          \* position of the running program
    prog,        \* which program runs: "none", "install", "uninstall"
    installs,    \* existing_installs / installations of the run
    idx,         \* loop position in installs
    preserve,    \* migrate_installation: should_preserve
    status,      \* safe_git_update: result of the status query
    resp,        \* what input() returned in this run ("none" before)
    gitLog,      \* git commands run in the canonical directory, in order
    gitFailed,   \* those of gitLog that ended non-zero
    out,         \* messages printed in this run
    exitCode,    \* exit status of the run (-1 while running)
    success,     \* uninstall.py main: success
    deleted,     \* directories removed in this run
    reported,    \* directories reported as preserved in this run
    snap,        \* the filesystem as it was when the run started
    now,         \* the clock, in hours
    marker,      \* .last_check: whether it exists and its modification time
    hpc,         \* position of the running hook-check
    hstart,      \* when the running hook-check started
    hbefore,     \* marker and commits as the running hook-check found them
    hops,        \* what the running hook-check did, in order
    hfailed,     \* the operations of hops that failed
    hout,        \* what the running hook-check printed
    local,       \* number of commits of the local branch
    tracking,    \* number of commits of origin/main as last fetched
    remote,      \* number of commits of the remote branch
    hist,        \* the completed hook-checks, in order
    procs,       \* the hook-check processes that run at the same time
    docs,        \* docs/*.md in the order the directory lists them
    outside,     \* the *.md files of the installation directory itself
    topic,       \* the topic asked for
    found        \* what the last lookup returned and listed

fsVars == <<dirs, cmdFile, settings, backup>>
instVars == <<dirs, cmdFile, settings, backup, pc, prog, installs, idx,
              preserve, status, resp, gitLog, gitFailed, out, exitCode, success,
              deleted, reported, snap>>
hookVars == <<now, marker, hpc, hstart, hbefore, hops, hfailed, hout, local,
              tracking, remote, hist>>
raceVars == <<procs>>
lookupVars == <<docs, outside, topic, found>>
helperVars == <<hookVars, raceVars, lookupVars>>
vars == <<instVars, helperVars>>

NoStatus == [ok |-> FALSE, ran |-> FALSE, lines |-> {}]
\* The run before was an uninstall that ended with the message of success
\* (uninstall.py:245-246).
LastOutcome ==
    IF prog = "uninstall" /\ "uninstall_complete" \in out THEN "complete"
    ELSE "other"
Snapshot == [dirs |-> dirs, cmdFile |-> cmdFile, settings |-> settings,
             backup |-> backup, last |-> LastOutcome]

\* ------------------------------------------------------------ initial states
RECURSIVE EntryLists(_)
EntryLists(n) ==
    IF n = 0 THEN {<<>>}
    ELSE LET shorter == EntryLists(n - 1)
         IN shorter \cup {Append(l, e) : l \in {x \in shorter : Len(x) = n - 1},
                                          e \in InitEntries}

FewSettings ==
    {NoSettings, Malformed, Json(TRUE, TRUE, <<MixedEntry, UserEntry>>)}
ManySettings ==
    FewSettings
    \cup {EmptyJson, [EmptyJson EXCEPT !.other = TRUE]}
    \cup {[EmptyJson EXCEPT !.other = TRUE, !.hasHooks = TRUE, !.post = b] :
            b \in BOOLEAN}
    \cup {Json(TRUE, b, l) : b \in BOOLEAN, l \in EntryLists(MaxEntries)}

OldDirStates == {AbsentDir, PlainDir, Repo({}), Repo({HooksDoc})}
CanonicalStates == {AbsentDir, PlainDir} \cup {Repo(ch) : ch \in SUBSET Paths}

InitFiles ==
    \/ /\ dirs \in [Dirs -> OldDirStates \cup CanonicalStates]
       /\ dirs[INSTALL_DIR] \in CanonicalStates
       /\ \A d \in OldDirs : dirs[d] \in OldDirStates
       /\ cmdFile \in {NoDir} \cup Dirs
       /\ settings \in FewSettings
    \/ /\ dirs \in [Dirs -> {AbsentDir, Repo({}), Repo({HooksDoc})}]
       /\ dirs[INSTALL_DIR] = Repo({})
       /\ \A d \in OldDirs : dirs[d] \in {AbsentDir, Repo({HooksDoc})}
       /\ cmdFile = INSTALL_DIR
       /\ settings \in ManySettings

Idle ==
    /\ pc = "idle"
    /\ prog = "none"
    /\ installs = <<>>
    /\ idx = 1
    /\ preserve = FALSE
    /\ status = NoStatus
    /\ resp = "none"
    /\ gitLog = <<>>
    /\ gitFailed = {}
    /\ out = {}
    /\ exitCode = -1
    /\ success = TRUE
    /\ deleted = {}
    /\ reported = {}

\* No hook-check runs and none has run.
NoMarkerFile == [exists |-> FALSE, mtime |-> 0]
HookIdle ==
    /\ hpc = "idle"
    /\ hstart = 0
    /\ hbefore = [marker |-> marker, local |-> local, tracking |-> tracking]
    /\ hops = <<>>
    /\ hfailed = {}
    /\ hout = {}
    /\ hist = <<>>

\* No overlapping hook-checks run, and no lookup has been made.
RaceIdle == procs = <<>>
LookupIdle ==
    /\ docs = <<>>
    /\ outside = {}
    /\ topic = <<>>
    /\ found = <<>>

Init ==
    /\ InitFiles
    /\ backup = NoSettings
    /\ Idle
    /\ snap = Snapshot
    /\ now = 0
    /\ marker = NoMarkerFile
    /\ local = 0
    /\ tracking = 0
    /\ remote = 0
    /\ HookIdle
    /\ RaceIdle
    /\ LookupIdle

\* ------------------------------------------------------------ helpers
Say(msgs) == out' = out \cup msgs

\* sys.exit(code), or main() returning (code 0).
Exit(code) == /\ pc' = "done"
              /\ exitCode' = code

\* git_operation in (or, for clone, into) the canonical directory: the
\* command is logged with its outcome.
Git(op, ok) ==
    /\ gitLog' = Append(gitLog, op)
    /\ gitFailed' = IF ok THEN gitFailed ELSE gitFailed \cup {op}

\* shutil.rmtree(d).
Rmtree(d) ==
    /\ dirs' = [dirs EXCEPT ![d] = AbsentDir]
    /\ deleted' = deleted \cup {d}

\* git clone into the canonical path: a fresh, clean working copy.
Cloned == dirs' = [dirs EXCEPT ![INSTALL_DIR] = Repo({})]

\* install.py:491: a valid mirror is present at the canonical path.
ValidMirror == dirs[INSTALL_DIR].kind = "repo"

\* ------------------------------------------------------------ install.py
\* install.py:222-223: the status lines that are not the manifest's.
NonManifestChanges(lines) ==
    {l \in lines : ~Contains(l, <<"docs_manifest.json">>)
                   /\ ~Contains(l, <<"docs\\", "docs_manifest.json">>)}

\* Mutant of Confirms: every answer but "n" confirms.
MutConfirmsUnlessNo(r) == Lower(r) # "n"

\* install.py:232 / uninstall.py:220: the answer confirms.
Confirms(r) == Lower(r) = "y"

\* install.py:158: the old working copy is to be preserved.
ShouldPreserve(isRepo, ok, lines) == isRepo /\ ok /\ lines # {}

\* install.py:442-444: cleanup removes the directory.
CleanupRemoves(isRepo, ok, lines) == isRepo /\ ok /\ lines = {}

\* A program starts when none is running; the variables of the run are
\* those of a fresh process.
StartRun(p) ==
    /\ pc \in {"idle", "done"}
    /\ prog' = p
    /\ snap' = Snapshot
    /\ idx' = 1
    /\ preserve' = FALSE
    /\ status' = NoStatus
    /\ resp' = "none"
    /\ gitLog' = <<>>
    /\ gitFailed' = {}
    /\ success' = TRUE
    /\ deleted' = {}
    /\ reported' = {}

\* install.py:471-511: main() up to the choice of update, migration or fresh
\* clone.  check_dependencies may fail; discovery reads the files.
InstallStart ==
    /\ StartRun("install")
    /\ \E depsOk \in BOOLEAN, cwd \in {NoDir} \cup OldDirs :
        IF ~depsOk
        THEN /\ out' = {"deps_missing"}
             /\ Exit(1)
             /\ installs' = <<>>
        ELSE /\ installs' = find_existing_installations(dirs, cmdFile, settings, cwd)
             /\ exitCode' = -1
             /\ IF ValidMirror
                THEN /\ pc' = "pull"
                     /\ out' = {"found_installation"}
                ELSE IF installs' # <<>>
                THEN /\ pc' = "mig_status"
                     /\ out' = {"migrating"}
                ELSE /\ pc' = "clone"
                     /\ out' = {"installing_fresh"}
    /\ UNCHANGED fsVars
    /\ UNCHANGED helperVars

\* install.py:495-497: safe_git_update() returned False.
UpdateFailed(msgs) ==
    /\ Say(msgs \cup {"update_failed"})
    /\ Exit(1)

\* install.py:186-205: rev-parse, then pull.
SguPull ==
    /\ pc = "pull"
    /\ \E ok \in BOOLEAN :
        /\ Git("pull", ok)
        /\ pc' = IF ok THEN "cmdfile" ELSE "fetch"
    /\ UNCHANGED <<fsVars, prog, installs, idx, preserve, status, resp, out,
                   exitCode, success, deleted, reported, snap>>
    /\ UNCHANGED helperVars

\* Mutant of SguFetch: a failed fetch is not looked at.
MutSguFetchGoesOn ==
    /\ pc = "fetch"
    /\ \E ok \in BOOLEAN : Git("fetch", ok)
    /\ pc' = "status"
    /\ UNCHANGED <<fsVars, prog, installs, idx, preserve, status, resp, out,
                   exitCode, success, deleted, reported, snap>>
    /\ UNCHANGED helperVars

\* install.py:207-214.
SguFetch ==
    /\ pc = "fetch"
    /\ \E ok \in BOOLEAN :
        /\ Git("fetch", ok)
        /\ IF ok
           THEN /\ pc' = "status"
                /\ UNCHANGED <<out, exitCode>>
           ELSE UpdateFailed({"warn_offline"})
    /\ UNCHANGED <<fsVars, prog, installs, idx, preserve, status, resp,
                   success, deleted, reported, snap>>
    /\ UNCHANGED helperVars

\* install.py:216-225.
SguStatus ==
    /\ pc = "status"
    /\ \E ok \in BOOLEAN :
        LET lines == IF ok THEN StatusOutput(dirs[INSTALL_DIR].changes) ELSE {}
            has_changes == IF ok THEN lines # {} ELSE FALSE
        IN /\ Git("status", ok)
           /\ status' = [ok |-> ok, ran |-> TRUE, lines |-> lines]
           /\ pc' = IF has_changes /\ NonManifestChanges(lines) # {}
                    THEN "prompt" ELSE "merge_abort"
    /\ UNCHANGED <<fsVars, prog, installs, idx, preserve, resp, out, exitCode,
                   success, deleted, reported, snap>>
    /\ UNCHANGED helperVars

\* install.py:226-234 and 554-556.
SguPrompt ==
    /\ pc = "prompt"
    /\ \E r \in Inputs :
        /\ resp' = r
        /\ IF r = Interrupt
           THEN /\ Say({"warn_local_changes", "interrupted"})
                /\ Exit(1)
           ELSE IF ~Confirms(r)
           THEN UpdateFailed({"warn_local_changes", "cancelled"})
           ELSE /\ Say({"warn_local_changes"})
                /\ pc' = "merge_abort"
                /\ UNCHANGED exitCode
    /\ UNCHANGED <<fsVars, prog, installs, idx, preserve, status, gitLog,
                   gitFailed, success, deleted, reported, snap>>
    /\ UNCHANGED helperVars

\* install.py:236-239: merge --abort; its outcome is not looked at and the
\* model gives it no effect on the changed paths.
SguMergeAbort ==
    /\ pc = "merge_abort"
    /\ Git("merge_abort", TRUE)
    /\ pc' = "rebase_abort"
    /\ UNCHANGED <<fsVars, prog, installs, idx, preserve, status, resp, out,
                   exitCode, success, deleted, reported, snap>>
    /\ UNCHANGED helperVars

\* install.py:240: rebase --abort, likewise.
SguRebaseAbort ==
    /\ pc = "rebase_abort"
    /\ Git("rebase_abort", TRUE)
    /\ pc' = "reset"
    /\ UNCHANGED <<fsVars, prog, installs, idx, preserve, status, resp, out,
                   exitCode, success, deleted, reported, snap>>
    /\ UNCHANGED helperVars

\* install.py:243: reset --hard origin/main discards the changes to tracked
\* files when it succeeds.
SguReset ==
    /\ pc = "reset"
    /\ \E ok \in BOOLEAN :
        /\ Git("reset", ok)
        /\ dirs' = IF ok
                   THEN [dirs EXCEPT ![INSTALL_DIR].changes = @ \ Tracked]
                   ELSE dirs
    /\ pc' = "clean"
    /\ UNCHANGED <<cmdFile, settings, backup, prog, installs, idx, preserve,
                   status, resp, out, exitCode, success, deleted, reported, snap>>
    /\ UNCHANGED helperVars

\* install.py:244-247: clean -fd removes the untracked files when it
\* succeeds; safe_git_update returns True.
SguClean ==
    /\ pc = "clean"
    /\ \E ok \in BOOLEAN :
        /\ Git("clean", ok)
        /\ dirs' = IF ok
                   THEN [dirs EXCEPT ![INSTALL_DIR].changes = @ \ Untracked]
                   ELSE dirs
    /\ Say({"clean_state_ok"})
    /\ pc' = "cmdfile"
    /\ UNCHANGED <<cmdFile, settings, backup, prog, installs, idx, preserve,
                   status, resp, exitCode, success, deleted, reported, snap>>
    /\ UNCHANGED helperVars

\* Mutant of CloneFailed: the failure is reported and the run goes on.
MutCloneFailedGoesOn ==
    /\ Say({"clone_failed"})
    /\ pc' = "cmdfile"
    /\ UNCHANGED exitCode

\* install.py:165-167 and 509-511: the clone failed.
CloneFailed ==
    /\ Say({"clone_failed"})
    /\ Exit(1)

\* install.py:154-160: migrate_installation(existing_installs[0]), the status
\* query on the old directory.
MigStatus ==
    /\ pc = "mig_status"
    /\ LET old == dirs[installs[1]]
       IN \E ok \in BOOLEAN :
           /\ preserve' = ShouldPreserve(old.kind = "repo", ok,
                                         StatusOutput(old.changes))
           /\ IF preserve' THEN Say({"old_has_changes"}) ELSE UNCHANGED out
    /\ pc' = "mig_clone"
    /\ UNCHANGED <<fsVars, prog, installs, idx, status, resp, gitLog, gitFailed,
                   exitCode, success, deleted, reported, snap>>
    /\ UNCHANGED helperVars

\* install.py:162-167.
MigClone ==
    /\ pc = "mig_clone"
    /\ \E ok \in BOOLEAN :
        /\ Git("clone", ok)
        /\ IF ok
           THEN /\ Cloned
                /\ pc' = "mig_remove"
                /\ UNCHANGED <<out, exitCode>>
           ELSE /\ CloneFailed
                /\ UNCHANGED dirs
    /\ UNCHANGED <<cmdFile, settings, backup, prog, installs, idx, preserve,
                   status, resp, success, deleted, reported, snap>>
    /\ UNCHANGED helperVars

\* install.py:169-181.
MigRemove ==
    /\ pc = "mig_remove"
    /\ IF ~preserve
       THEN /\ \E rmOk \in BOOLEAN :
                IF rmOk
                THEN /\ Rmtree(installs[1])
                     /\ Say({"old_removed", "migration_complete"})
                ELSE /\ Say({"old_not_removed", "migration_complete"})
                     /\ UNCHANGED <<dirs, deleted>>
            /\ UNCHANGED reported
       ELSE /\ Say({"old_preserved", "migration_complete"})
            /\ reported' = reported \cup {installs[1]}
            /\ UNCHANGED <<dirs, deleted>>
    /\ pc' = "cmdfile"
    /\ UNCHANGED <<cmdFile, settings, backup, prog, installs, idx, preserve,
                   status, resp, gitLog, gitFailed, exitCode, success, snap>>
    /\ UNCHANGED helperVars

\* install.py:504-511: fresh installation.
FreshClone ==
    /\ pc = "clone"
    /\ \E ok \in BOOLEAN :
        /\ Git("clone", ok)
        /\ IF ok
           THEN /\ Cloned
                /\ pc' = "cmdfile"
                /\ UNCHANGED <<out, exitCode>>
           ELSE /\ CloneFailed
                /\ UNCHANGED dirs
    /\ UNCHANGED <<cmdFile, settings, backup, prog, installs, idx, preserve,
                   status, resp, success, deleted, reported, snap>>
    /\ UNCHANGED helperVars

\* install.py:517-518: setup_helper_script copies the helper scripts (files
\* outside Paths), setup_command_file rewrites the command file.
SetupCommandFile ==
    /\ pc = "cmdfile"
    /\ cmdFile' = INSTALL_DIR
    /\ Say({"command_created"})
    /\ pc' = "hooks"
    /\ UNCHANGED <<dirs, settings, backup, prog, installs, idx, preserve,
                   status, resp, gitLog, gitFailed, exitCode, success, deleted, reported,
                   snap>>
    /\ UNCHANGED helperVars

\* install.py:327-376: setup_hooks.
SetupHooks ==
    /\ pc = "hooks"
    /\ settings' = SetupHooksResult(settings)
    /\ Say({"settings_updated"}
           \cup IF settings.st = "malformed" THEN {"invalid_settings"} ELSE {})
    /\ pc' = "cleanup"
    /\ UNCHANGED <<dirs, cmdFile, backup, prog, installs, idx, preserve,
                   status, resp, gitLog, gitFailed, exitCode, success, deleted, reported,
                   snap>>
    /\ UNCHANGED helperVars

\* install.py:435-453: one turn of the loop of cleanup_old_installations.
CleanupStep ==
    /\ pc = "cleanup"
    /\ idx <= Len(installs)
    /\ LET d == installs[idx]
           old == dirs[d]
       IN IF old.kind = "absent"
          THEN UNCHANGED <<dirs, deleted, reported, out>>
          ELSE \E ok \in BOOLEAN, rmOk \in BOOLEAN :
                 IF CleanupRemoves(old.kind = "repo", ok, StatusOutput(old.changes))
                 THEN /\ IF rmOk
                         THEN /\ Rmtree(d)
                              /\ Say({"cleanup_removed"})
                         ELSE /\ Say({"cleanup_not_removed"})
                              /\ UNCHANGED <<dirs, deleted>>
                      /\ UNCHANGED reported
                 ELSE /\ Say({"cleanup_preserved"})
                      /\ reported' = reported \cup {d}
                      /\ UNCHANGED <<dirs, deleted>>
    /\ idx' = idx + 1
    /\ UNCHANGED <<cmdFile, settings, backup, pc, prog, installs, preserve,
                   status, resp, gitLog, gitFailed, exitCode, success, snap>>
    /\ UNCHANGED helperVars

\* install.py:524-548: the success message; main() returns.
InstallFinish ==
    /\ pc = "cleanup"
    /\ idx > Len(installs)
    /\ Say({"installed"})
    /\ Exit(0)
    /\ UNCHANGED <<fsVars, prog, installs, idx, preserve, status, resp, gitLog,
                   gitFailed, success, deleted, reported, snap>>
    /\ UNCHANGED helperVars

\* ------------------------------------------------------------ uninstall.py
\* uninstall.py:185: has_changes of remove_directories.
HasChanges(isRepo, ok, lines) == isRepo /\ ok /\ lines # {}

\* uninstall.py:197-215: discovery and the announcement.
UninstallStart ==
    /\ StartRun("uninstall")
    /\ installs' = find_all_installations(dirs, cmdFile, settings)
    /\ out' = {"will_remove"}
    /\ exitCode' = -1
    /\ pc' = "u_prompt"
    /\ UNCHANGED fsVars
    /\ UNCHANGED helperVars

\* Mutant of UnPrompt: the answer is read and the uninstall goes on.
MutUnPromptGoesOn ==
    /\ pc = "u_prompt"
    /\ \E r \in Inputs : resp' = r
    /\ pc' = "u_cmdfile"
    /\ UNCHANGED <<fsVars, prog, installs, idx, preserve, status, gitLog,
                   gitFailed, out, exitCode, success, deleted, reported, snap>>
    /\ UNCHANGED helperVars

\* uninstall.py:217-225.
UnPrompt ==
    /\ pc = "u_prompt"
    /\ \E r \in Inputs :
        /\ resp' = r
        /\ IF r # Interrupt /\ Confirms(r)
           THEN /\ pc' = "u_cmdfile"
                /\ UNCHANGED <<out, exitCode>>
           ELSE /\ Say({"u_cancelled"})
                /\ Exit(0)
    /\ UNCHANGED <<fsVars, prog, installs, idx, preserve, status, gitLog,
                   gitFailed, success, deleted, reported, snap>>
    /\ UNCHANGED helperVars

\* uninstall.py:113-123 and 233-234: remove_command_file.
UnRemoveCommandFile ==
    /\ pc = "u_cmdfile"
    /\ IF cmdFile # NoDir
       THEN \E unlinkOk \in BOOLEAN :
              IF unlinkOk
              THEN /\ cmdFile' = NoDir
                   /\ Say({"command_removed"})
                   /\ UNCHANGED success
              ELSE /\ Say({"command_not_removed"})
                   /\ success' = FALSE
                   /\ UNCHANGED cmdFile
       ELSE UNCHANGED <<cmdFile, out, success>>
    /\ pc' = "u_hooks"
    /\ UNCHANGED <<dirs, settings, backup, prog, installs, idx, preserve,
                   status, resp, gitLog, gitFailed, exitCode, deleted, reported,
                   snap>>
    /\ UNCHANGED helperVars

\* uninstall.py:126-168: what remove_hooks returns ("true", "false", or
\* "none" when the function falls off its end).
RemoveHooksReturn(s) ==
    IF s.st = "absent" THEN "true"
    ELSE IF s.st = "malformed" THEN "false"
    ELSE IF s.hasHooks /\ s.hasPre THEN "true"
    ELSE "none"

\* uninstall.py:126-168 and 237-238: remove_hooks.
UnRemoveHooks ==
    /\ pc = "u_hooks"
    /\ backup' = IF settings.st = "absent" THEN backup ELSE settings
    /\ IF settings.st = "json" /\ settings.hasHooks /\ settings.hasPre
       THEN /\ settings' = RemoveHooksResult(settings)
            /\ Say({IF Len(settings'.pre) < Len(settings.pre)
                    THEN "hooks_removed" ELSE "no_hooks_to_remove"})
       ELSE /\ UNCHANGED settings
            /\ IF settings.st = "malformed"
               THEN Say({"hooks_not_removed"})
               ELSE UNCHANGED out
    /\ success' = IF RemoveHooksReturn(settings) = "true" THEN success ELSE FALSE
    /\ pc' = "u_dirs"
    /\ UNCHANGED <<dirs, cmdFile, prog, installs, idx, preserve, status, resp,
                   gitLog, gitFailed, exitCode, deleted, reported, snap>>
    /\ UNCHANGED helperVars

\* uninstall.py:177-194: one turn of the loop of remove_directories.
UnRemoveDir ==
    /\ pc = "u_dirs"
    /\ idx <= Len(installs)
    /\ LET d == installs[idx]
           old == dirs[d]
       IN IF old.kind = "absent"
          THEN UNCHANGED <<dirs, deleted, reported, out>>
          ELSE \E ok \in BOOLEAN, rmOk \in BOOLEAN :
                 IF HasChanges(old.kind = "repo", ok, StatusOutput(old.changes))
                 THEN /\ Say({"dir_preserved"})
                      /\ reported' = reported \cup {d}
                      /\ UNCHANGED <<dirs, deleted>>
                 ELSE /\ IF rmOk
                         THEN /\ Rmtree(d)
                              /\ Say({"dir_removed"})
                         ELSE /\ Say({"dir_not_removed"})
                              /\ UNCHANGED <<dirs, deleted>>
                      /\ UNCHANGED reported
    /\ idx' = idx + 1
    /\ UNCHANGED <<cmdFile, settings, backup, pc, prog, installs, preserve,
                   status, resp, gitLog, gitFailed, exitCode, success, snap>>
    /\ UNCHANGED helperVars

\* uninstall.py:243-257: the final message; main() returns.
UninstallFinish ==
    /\ pc = "u_dirs"
    /\ idx > Len(installs)
    /\ Say({IF success THEN "uninstall_complete" ELSE "uninstall_warnings"})
    /\ Exit(0)
    /\ UNCHANGED <<fsVars, prog, installs, idx, preserve, status, resp, gitLog,
                   gitFailed, success, deleted, reported, snap>>
    /\ UNCHANGED helperVars

\* ------------------------------------------------------------ claude-docs-helper.py
\* claude-docs-helper.py:27: CHECK_INTERVAL, in hours.
CHECK_INTERVAL == 3

\* Mutant of ShouldCheck: the marker is not looked at.
MutShouldCheckAlways(m, t) == TRUE

\* claude-docs-helper.py:229-237: should_check, for marker m at time t.
ShouldCheck(m, t) ==
    IF m.exists /\ t - m.mtime < CHECK_INTERVAL THEN FALSE ELSE TRUE

\* claude-docs-helper.py:73: the behind count after a successful rev-list.
BehindCount == tracking - local

HookState == [marker |-> marker, local |-> local, tracking |-> tracking]

\* The hook-check process ends: main() returns (0) or the exception handler
\* of claude-docs-helper.py:365-367 exits (1).
HookEnds(code, start, before, ops, failed, printed, after) ==
    /\ hpc' = "done"
    /\ hist' = Append(hist, [start |-> start, ops |-> ops, failed |-> failed,
                             out |-> printed, exit |-> code,
                             before |-> before, after |-> after])

HookGit(op, ok) ==
    /\ hops' = Append(hops, op)
    /\ hfailed' = IF ok THEN hfailed ELSE hfailed \cup {op}

\* claude-docs-helper.py:254-255 and 226-239: hook-check starts and reads
\* the marker.
HookStart ==
    /\ hpc \in {"idle", "done"}
    /\ Len(hist) < MaxInvocations
    /\ hstart' = now
    /\ hbefore' = HookState
    /\ hops' = <<>>
    /\ hfailed' = {}
    /\ hout' = {}
    /\ IF ShouldCheck(marker, now)
       THEN /\ hpc' = "touch"
            /\ UNCHANGED hist
       ELSE HookEnds(0, now, HookState, <<>>, {}, {}, HookState)
    /\ UNCHANGED <<now, marker, local, tracking, remote>>
    /\ UNCHANGED <<instVars, raceVars, lookupVars>>

\* claude-docs-helper.py:241: LAST_CHECK_FILE.touch().
HookTouch ==
    /\ hpc = "touch"
    /\ \E ok \in BOOLEAN :
        /\ HookGit("touch", ok)
        /\ IF ok
           THEN /\ marker' = [exists |-> TRUE, mtime |-> now]
                /\ hpc' = "fetch"
                /\ UNCHANGED <<hout, hist>>
           ELSE /\ hout' = hout \cup {"error"}
                /\ HookEnds(1, hstart, hbefore, hops', hfailed', hout', HookState)
                /\ UNCHANGED marker
    /\ UNCHANGED <<now, hstart, hbefore, local, tracking, remote>>
    /\ UNCHANGED <<instVars, raceVars, lookupVars>>

\* Mutant of HookFetch: a failed fetch puts the marker back as it was found.
MutHookFetchRestoresMarker ==
    /\ hpc = "fetch"
    /\ \E ok \in BOOLEAN :
        /\ HookGit("fetch", ok)
        /\ IF ok
           THEN /\ tracking' = remote
                /\ hpc' = "count"
                /\ UNCHANGED <<hist, marker>>
           ELSE /\ marker' = hbefore.marker
                /\ HookEnds(0, hstart, hbefore, hops', hfailed', hout,
                            [marker |-> marker', local |-> local,
                             tracking |-> tracking])
                /\ UNCHANGED tracking
    /\ UNCHANGED <<now, hstart, hbefore, hout, local, remote>>
    /\ UNCHANGED <<instVars, raceVars, lookupVars>>

\* claude-docs-helper.py:64-66: check_for_updates, the fetch.
HookFetch ==
    /\ hpc = "fetch"
    /\ \E ok \in BOOLEAN :
        /\ HookGit("fetch", ok)
        /\ IF ok
           THEN /\ tracking' = remote
                /\ hpc' = "count"
                /\ UNCHANGED hist
           ELSE /\ HookEnds(0, hstart, hbefore, hops', hfailed', hout, HookState)
                /\ UNCHANGED tracking
    /\ UNCHANGED <<now, marker, hstart, hbefore, hout, local, remote>>
    /\ UNCHANGED <<instVars, raceVars, lookupVars>>

\* claude-docs-helper.py:69-78 and 244-245: the behind count.
HookCount ==
    /\ hpc = "count"
    /\ \E ok \in BOOLEAN :
        /\ HookGit("rev-list", ok)
        /\ IF ok /\ BehindCount > 0
           THEN /\ hpc' = "pull"
                /\ UNCHANGED hist
           ELSE HookEnds(0, hstart, hbefore, hops', hfailed', hout, HookState)
    /\ UNCHANGED <<now, marker, hstart, hbefore, hout, local, tracking, remote>>
    /\ UNCHANGED <<instVars, raceVars, lookupVars>>

\* claude-docs-helper.py:81-91 and 246: pull_updates.
HookPull ==
    /\ hpc = "pull"
    /\ \E ok \in BOOLEAN :
        /\ HookGit("pull", ok)
        /\ local' = IF ok THEN remote ELSE local
        /\ tracking' = IF ok THEN remote ELSE tracking
        /\ hout' = hout \cup {"updating", IF ok THEN "updated" ELSE "update_failed"}
        /\ HookEnds(0, hstart, hbefore, hops', hfailed', hout',
                    [marker |-> marker, local |-> local', tracking |-> tracking'])
    /\ UNCHANGED <<now, marker, hstart, hbefore, remote>>
    /\ UNCHANGED <<instVars, raceVars, lookupVars>>

\* Time passes.
Tick ==
    /\ now < MaxTime
    /\ now' = now + 1
    /\ UNCHANGED <<marker, hpc, hstart, hbefore, hops, hfailed, hout, local,
                   tracking, remote, hist>>
    /\ UNCHANGED <<instVars, raceVars, lookupVars>>

\* The documentation repository gains a commit.
RemoteCommit ==
    /\ remote < MaxCommits
    /\ remote' = remote + 1
    /\ UNCHANGED <<now, marker, hpc, hstart, hbefore, hops, hfailed, hout,
                   local, tracking, hist>>
    /\ UNCHANGED <<instVars, raceVars, lookupVars>>

\* ------------------------------------------------------------ freshness check
\* Mutant of CheckForUpdates: a count of zero also reports updates.
MutCheckForUpdatesFromZero(fetchOk, countOk, k) ==
    IF ~fetchOk THEN [has |-> FALSE, message |-> "Could not check for updates"]
    ELSE IF ~countOk THEN [has |-> FALSE, message |-> "Could not compare with remote"]
    ELSE [has |-> TRUE, message |-> ToString(k) \o " update(s) available"]

\* claude-docs-helper.py:61-78: what check_for_updates returns, from the
\* outcomes of the fetch and of the count and the number the count printed.
CheckForUpdates(fetchOk, countOk, k) ==
    IF ~fetchOk THEN [has |-> FALSE, message |-> "Could not check for updates"]
    ELSE IF ~countOk THEN [has |-> FALSE, message |-> "Could not compare with remote"]
    ELSE IF k > 0
    THEN [has |-> TRUE, message |-> ToString(k) \o " update(s) available"]
    ELSE [has |-> FALSE, message |-> "Already up to date"]

\* claude-docs-helper.py:217-221: how check_freshness prints the result.
Report(r) == (IF r.has THEN "[UPDATE] " ELSE "[OK] ") \o r.message

\* check_freshness returns; the completed check is recorded with the count it
\* obtained (counted is FALSE when there was none).
FreshEnds(ops, failed, printed, counted, k, after) ==
    /\ hpc' = "done"
    /\ hist' = Append(hist, [start |-> hstart, ops |-> ops, failed |-> failed,
                             out |-> printed, exit |-> 0, before |-> hbefore,
                             after |-> after, counted |-> counted, behind |-> k])

\* claude-docs-helper.py:274-281 and 206-212: '-t' was given; check_freshness
\* starts with get_last_update_time (git log).
FreshStart ==
    /\ hpc \in {"idle", "done"}
    /\ Len(hist) < MaxInvocations
    /\ hstart' = now
    /\ hbefore' = HookState
    /\ \E ok \in BOOLEAN :
        /\ hops' = <<"log">>
        /\ hfailed' = IF ok THEN {} ELSE {"log"}
        /\ hout' = {IF ok THEN "[INFO] Docs last updated"
                    ELSE "[INFO] Could not determine last update time"}
    /\ hpc' = "f_fetch"
    /\ UNCHANGED <<now, marker, local, tracking, remote, hist>>
    /\ UNCHANGED <<instVars, raceVars, lookupVars>>

\* claude-docs-helper.py:64-66 and 215-221: the fetch.
FreshFetch ==
    /\ hpc = "f_fetch"
    /\ \E ok \in BOOLEAN :
        /\ HookGit("fetch", ok)
        /\ IF ok
           THEN /\ tracking' = remote
                /\ hpc' = "f_count"
                /\ UNCHANGED <<hout, hist>>
           ELSE /\ hout' = hout \cup {Report(CheckForUpdates(FALSE, FALSE, 0))}
                /\ FreshEnds(hops', hfailed', hout', FALSE, 0, HookState)
                /\ UNCHANGED tracking
    /\ UNCHANGED <<now, marker, hstart, hbefore, local, remote>>
    /\ UNCHANGED <<instVars, raceVars, lookupVars>>

\* claude-docs-helper.py:69-78 and 215-221: the behind count and its report.
FreshCount ==
    /\ hpc = "f_count"
    /\ \E ok \in BOOLEAN :
        LET r == CheckForUpdates(TRUE, ok, BehindCount)
        IN /\ HookGit("rev-list", ok)
           /\ hout' = hout \cup {Report(r)}
           /\ IF r.has
              THEN /\ hpc' = "f_pull"
                   /\ UNCHANGED hist
              ELSE FreshEnds(hops', hfailed', hout', ok, BehindCount, HookState)
    /\ UNCHANGED <<now, marker, hstart, hbefore, local, tracking, remote>>
    /\ UNCHANGED <<instVars, raceVars, lookupVars>>

\* claude-docs-helper.py:81-91 and 219: pull_updates.
FreshPull ==
    /\ hpc = "f_pull"
    /\ \E ok \in BOOLEAN :
        /\ HookGit("pull", ok)
        /\ local' = IF ok THEN remote ELSE local
        /\ tracking' = IF ok THEN remote ELSE tracking
        /\ hout' = hout \cup {"[UPDATE] Updating documentation...",
                              IF ok THEN "[OK] Documentation updated successfully"
                              ELSE "[WARNING]  Update failed"}
        /\ FreshEnds(hops', hfailed', hout', TRUE, BehindCount,
                     [marker |-> marker, local |-> local', tracking |-> tracking'])
    /\ UNCHANGED <<now, marker, hstart, hbefore, remote>>
    /\ UNCHANGED <<instVars, raceVars, lookupVars>>

\* ------------------------------------------------------------ overlapping hook-checks
\* Two hook-check processes started by overlapping hook triggers.  Each runs
\* hook_check once; its steps interleave with the other's.
Procs == {"A", "B"}

ProcIdle == [pc |-> "idle", stale |-> FALSE, overlaps |-> FALSE,
             check |-> FALSE, seen |-> {}, touched |-> 0,
             ops |-> {}, failed |-> {}, out |-> {}, exit |-> 0]

Running(q) == procs[q].pc \notin {"idle", "done"}
\* The processes whose marker update has already happened, less than
\* CHECK_INTERVAL ago.
HaveTouched ==
    {q \in Procs : /\ "touch" \in procs[q].ops \ procs[q].failed
                   /\ now - procs[q].touched < CHECK_INTERVAL}

\* claude-docs-helper.py:254-255 and 229: the process starts, should_check is
\* True.
PStart(p) ==
    /\ procs[p].pc = "idle"
    /\ procs' = [procs EXCEPT ![p] =
                   [@ EXCEPT !.pc = "exists",
                             !.stale = ShouldCheck(marker, now),
                             !.overlaps = \E q \in Procs \ {p} : Running(q),
                             !.check = TRUE]]
    /\ UNCHANGED <<now, marker, local, tracking, remote>>
    /\ UNCHANGED <<hpc, hstart, hbefore, hops, hfailed, hout, hist>>
    /\ UNCHANGED <<instVars, lookupVars>>

\* claude-docs-helper.py:231: LAST_CHECK_FILE.exists().
PExists(p) ==
    /\ procs[p].pc = "exists"
    /\ procs' = [procs EXCEPT ![p] =
                   IF marker.exists
                   THEN [@ EXCEPT !.pc = "stat"]
                   ELSE [@ EXCEPT !.pc = "touch", !.seen = HaveTouched]]
    /\ UNCHANGED <<now, marker, local, tracking, remote>>
    /\ UNCHANGED <<hpc, hstart, hbefore, hops, hfailed, hout, hist>>
    /\ UNCHANGED <<instVars, lookupVars>>

\* claude-docs-helper.py:233-239: the modification time is read and compared.
PStat(p) ==
    /\ procs[p].pc = "stat"
    /\ LET go == ShouldCheck(marker, now)
       IN procs' = [procs EXCEPT ![p] =
                      [@ EXCEPT !.pc = IF go THEN "touch" ELSE "done",
                                !.check = go, !.seen = HaveTouched]]
    /\ UNCHANGED <<now, marker, local, tracking, remote>>
    /\ UNCHANGED <<hpc, hstart, hbefore, hops, hfailed, hout, hist>>
    /\ UNCHANGED <<instVars, lookupVars>>

\* Mutant of PTouch: the marker is left as it is.
MutPTouchLeavesMarker(p) ==
    /\ procs[p].pc = "touch"
    /\ procs' = [procs EXCEPT ![p] =
                   [@ EXCEPT !.pc = "fetch", !.ops = @ \cup {"touch"},
                             !.touched = now]]
    /\ UNCHANGED <<now, marker, local, tracking, remote>>
    /\ UNCHANGED <<hpc, hstart, hbefore, hops, hfailed, hout, hist>>
    /\ UNCHANGED <<instVars, lookupVars>>

\* claude-docs-helper.py:241: LAST_CHECK_FILE.touch(); when it raises, the
\* handler of claude-docs-helper.py:365-367 prints the error and exits 1.
PTouch(p) ==
    /\ procs[p].pc = "touch"
    /\ \E ok \in BOOLEAN :
        /\ marker' = IF ok THEN [exists |-> TRUE, mtime |-> now] ELSE marker
        /\ procs' = [procs EXCEPT ![p] =
                       IF ok
                       THEN [@ EXCEPT !.pc = "fetch", !.ops = @ \cup {"touch"},
                                      !.touched = now]
                       ELSE [@ EXCEPT !.pc = "done", !.ops = @ \cup {"touch"},
                                      !.failed = @ \cup {"touch"},
                                      !.out = @ \cup {"error"}, !.exit = 1]]
    /\ UNCHANGED <<now, local, tracking, remote>>
    /\ UNCHANGED <<hpc, hstart, hbefore, hops, hfailed, hout, hist>>
    /\ UNCHANGED <<instVars, lookupVars>>

\* claude-docs-helper.py:64-66: the fetch of check_for_updates.
PFetch(p) ==
    /\ procs[p].pc = "fetch"
    /\ \E ok \in BOOLEAN :
        /\ tracking' = IF ok THEN remote ELSE tracking
        /\ procs' = [procs EXCEPT ![p] =
                       [@ EXCEPT !.pc = IF ok THEN "count" ELSE "done",
                                 !.ops = @ \cup {"fetch"},
                                 !.failed = IF ok THEN @ ELSE @ \cup {"fetch"}]]
    /\ UNCHANGED <<now, marker, local, remote>>
    /\ UNCHANGED <<hpc, hstart, hbefore, hops, hfailed, hout, hist>>
    /\ UNCHANGED <<instVars, lookupVars>>

\* claude-docs-helper.py:69-78 and 244-245: the behind count.
PCount(p) ==
    /\ procs[p].pc = "count"
    /\ \E ok \in BOOLEAN :
        procs' = [procs EXCEPT ![p] =
                    [@ EXCEPT !.pc = IF ok /\ BehindCount > 0 THEN "pull" ELSE "done",
                              !.ops = @ \cup {"rev-list"},
                              !.failed = IF ok THEN @ ELSE @ \cup {"rev-list"}]]
    /\ UNCHANGED <<now, marker, local, tracking, remote>>
    /\ UNCHANGED <<hpc, hstart, hbefore, hops, hfailed, hout, hist>>
    /\ UNCHANGED <<instVars, lookupVars>>

\* claude-docs-helper.py:81-91 and 246: pull_updates.
PPull(p) ==
    /\ procs[p].pc = "pull"
    /\ \E ok \in BOOLEAN :
        /\ local' = IF ok THEN remote ELSE local
        /\ tracking' = IF ok THEN remote ELSE tracking
        /\ procs' = [procs EXCEPT ![p] =
                       [@ EXCEPT !.pc = "done", !.ops = @ \cup {"pull"},
                                 !.failed = IF ok THEN @ ELSE @ \cup {"pull"},
                                 !.out = @ \cup {"updating", IF ok THEN "updated"
                                                         ELSE "update_failed"}]]
    /\ UNCHANGED <<now, marker, remote>>
    /\ UNCHANGED <<hpc, hstart, hbefore, hops, hfailed, hout, hist>>
    /\ UNCHANGED <<instVars, lookupVars>>

\* ------------------------------------------------------------ document lookup
\* Topics and file stems are sequences of characters; Up is the path
\* component "../".  Every document holds some text, which the model
\* identifies with the file it was read from.
Chars == {"y", "Y", "n"}
Up == "../"
Stems == {<<a>> : a \in Chars} \cup {<<a, b>> : a \in Chars, b \in Chars}
Topics == Stems \cup {<<Up, a>> : a \in Chars}

\* str.lower() of a sequence of characters.
LowerStr(t) == [i \in 1..Len(t) |-> Lower(t[i])]

\* The listings of docs/ with at most MaxEntries documents.
RECURSIVE Listings(_)
Listings(n) ==
    IF n = 0 THEN {<<>>}
    ELSE LET shorter == Listings(n - 1)
         IN shorter \cup {Append(l, f) : l \in {x \in shorter : Len(x) = n - 1},
                                          f \in Stems}

Distinct(l) == \A i \in 1..Len(l) : \A j \in 1..Len(l) : l[i] = l[j] => i = j

NoFile == [where |-> "nowhere", stem |-> <<>>]
DocFile(f) == [where |-> "docs", stem |-> f]
OutsideFile(f) == [where |-> "install_dir", stem |-> f]

\* claude-docs-helper.py:133-135: the file that DOCS_DIR / f"{topic}.md" names,
\* if it exists.
ExactFile(t) ==
    IF \E i \in 1..Len(docs) : docs[i] = t THEN DocFile(t)
    ELSE IF Len(t) > 1 /\ t[1] = Up /\ Tail(t) \in outside THEN OutsideFile(Tail(t))
    ELSE NoFile

\* The file at which a loop over the listing breaks, given the positions
\* that pass its test.
FirstOf(hits) ==
    IF hits = {} THEN NoFile
    ELSE DocFile(docs[CHOOSE i \in hits : \A j \in hits : i <= j])

\* claude-docs-helper.py:136-147: the file read_doc settles on.
Resolve(t) ==
    LET exact == ExactFile(t)
        caseless == IF exact # NoFile THEN exact
                    ELSE FirstOf({i \in 1..Len(docs) :
                                    LowerStr(docs[i]) = LowerStr(t)})
    IN IF caseless # NoFile THEN caseless
       ELSE FirstOf({i \in 1..Len(docs) :
                       Contains(LowerStr(docs[i]), LowerStr(t))})

\* claude-docs-helper.py:130-155: read_doc.
read_doc(t, readOk) ==
    LET file == Resolve(t)
    IN IF file = NoFile THEN [kind |-> "none", file |-> NoFile]
       ELSE IF readOk THEN [kind |-> "text", file |-> file]
       ELSE [kind |-> "error", file |-> file]

\* claude-docs-helper.py:118-127: list_topics (as a set).
list_topics == {docs[i] : i \in 1..Len(docs)}

\* claude-docs-helper.py:342: the similar topics.
Similar(t) ==
    {f \in list_topics : \/ Contains(LowerStr(f), LowerStr(t))
                         \/ Contains(LowerStr(t), LowerStr(f))}

NotAsked == [kind |-> "pending", file |-> NoFile, similar |-> {}, listed |-> {}]

\* claude-docs-helper.py:320-352: main() with a topic: the document is printed,
\* or the not-found message with the similar topics, or, when there are
\* none, with the available topics.
Lookup ==
    /\ \E t \in Topics, readOk \in BOOLEAN :
        LET content == read_doc(t, readOk)
        IN /\ topic' = t
           /\ found' = IF content.kind # "none"
                       THEN [kind |-> content.kind, file |-> content.file,
                             similar |-> {}, listed |-> {}]
                       ELSE [kind |-> "none", file |-> NoFile,
                             similar |-> Similar(t),
                             listed |-> IF Similar(t) = {} THEN list_topics
                                        ELSE {}]
    /\ UNCHANGED <<docs, outside>>
    /\ UNCHANGED <<instVars, hookVars, raceVars>>

\* ------------------------------------------------------------ specification
Next ==
    \/ InstallStart
    \/ SguPull
    \/ SguFetch
    \/ SguStatus
    \/ SguPrompt
    \/ SguMergeAbort
    \/ SguRebaseAbort
    \/ SguReset
    \/ SguClean
    \/ MigStatus
    \/ MigClone
    \/ MigRemove
    \/ FreshClone
    \/ SetupCommandFile
    \/ SetupHooks
    \/ CleanupStep
    \/ InstallFinish
    \/ UninstallStart
    \/ UnPrompt
    \/ UnRemoveCommandFile
    \/ UnRemoveHooks
    \/ UnRemoveDir
    \/ UninstallFinish

Spec == Init /\ [][Next]_vars

\* The update of an existing mirror, up to the return of safe_git_update:
\* every step that can be taken is taken eventually (git commands return,
\* the operator answers the prompt).
InitSgu ==
    /\ dirs \in [Dirs -> {AbsentDir} \cup {Repo(ch) : ch \in SUBSET Paths}]
    /\ dirs[INSTALL_DIR].kind = "repo"
    /\ \A d \in OldDirs : dirs[d] = AbsentDir
    /\ cmdFile = INSTALL_DIR
    /\ settings = Json(FALSE, FALSE, <<NewEntry>>)
    /\ backup = NoSettings
    /\ Idle
    /\ snap = Snapshot
    /\ now = 0
    /\ marker = NoMarkerFile
    /\ local = 0
    /\ tracking = 0
    /\ remote = 0
    /\ HookIdle
    /\ RaceIdle
    /\ LookupIdle

NextSgu ==
    \/ InstallStart
    \/ SguPull
    \/ SguFetch
    \/ SguStatus
    \/ SguPrompt
    \/ SguMergeAbort
    \/ SguRebaseAbort
    \/ SguReset
    \/ SguClean

SpecSgu == InitSgu /\ [][NextSgu]_vars /\ WF_vars(NextSgu)

\* The hook-checks of an installed mirror: the installation is in place and
\* neither installer nor uninstaller runs.
InitHook ==
    /\ dirs = [d \in Dirs |-> IF d = INSTALL_DIR THEN Repo({}) ELSE AbsentDir]
    /\ cmdFile = INSTALL_DIR
    /\ settings = Json(FALSE, FALSE, <<NewEntry>>)
    /\ backup = NoSettings
    /\ Idle
    /\ snap = Snapshot
    /\ now = 0
    /\ marker \in {NoMarkerFile, [exists |-> TRUE, mtime |-> 0]}
    /\ local = 0
    /\ tracking = 0
    /\ remote = 0
    /\ HookIdle
    /\ RaceIdle
    /\ LookupIdle

NextHook ==
    \/ HookStart
    \/ HookTouch
    \/ HookFetch
    \/ HookCount
    \/ HookPull
    \/ Tick
    \/ RemoteCommit

SpecHook == InitHook /\ [][NextHook]_vars

\* The interactive freshness checks ('-t') of an installed mirror.
NextFresh ==
    \/ FreshStart
    \/ FreshFetch
    \/ FreshCount
    \/ FreshPull
    \/ RemoteCommit

SpecFresh == InitHook /\ [][NextFresh]_vars

\* Lookups in an installed mirror, whatever docs/ lists and whatever *.md
\* files lie beside it.
InitLookup ==
    /\ dirs = [d \in Dirs |-> IF d = INSTALL_DIR THEN Repo({}) ELSE AbsentDir]
    /\ cmdFile = INSTALL_DIR
    /\ settings = Json(FALSE, FALSE, <<NewEntry>>)
    /\ backup = NoSettings
    /\ Idle
    /\ snap = Snapshot
    /\ now = 0
    /\ marker = NoMarkerFile
    /\ local = 0
    /\ tracking = 0
    /\ remote = 0
    /\ HookIdle
    /\ RaceIdle
    /\ docs \in {l \in Listings(MaxEntries) : Distinct(l)}
    /\ outside \in SUBSET {<<"y">>}
    /\ topic = <<>>
    /\ found = NotAsked

NextLookup == Lookup

SpecLookup == InitLookup /\ [][NextLookup]_vars

\* Two hook triggers that overlap, on an installed mirror.
InitRace ==
    /\ dirs = [d \in Dirs |-> IF d = INSTALL_DIR THEN Repo({}) ELSE AbsentDir]
    /\ cmdFile = INSTALL_DIR
    /\ settings = Json(FALSE, FALSE, <<NewEntry>>)
    /\ backup = NoSettings
    /\ Idle
    /\ snap = Snapshot
    /\ now = 0
    /\ marker \in {NoMarkerFile, [exists |-> TRUE, mtime |-> 0]}
    /\ local = 0
    /\ tracking = 0
    /\ remote \in {0, MaxCommits}
    /\ HookIdle
    /\ procs = [p \in Procs |-> ProcIdle]
    /\ LookupIdle

NextRace ==
    \/ \E p \in Procs : PStart(p)
    \/ \E p \in Procs : PExists(p)
    \/ \E p \in Procs : PStat(p)
    \/ \E p \in Procs : PTouch(p)
    \/ \E p \in Procs : PFetch(p)
    \/ \E p \in Procs : PCount(p)
    \/ \E p \in Procs : PPull(p)
    \/ Tick

SpecRace == InitRace /\ [][NextRace]_vars

\* ------------------------------------------------------------ claims
Ops(log) == {log[i] : i \in 1..Len(log)}
Ran(op) == op \in Ops(gitLog)
Installing == prog = "install"
Uninstalling == prog = "uninstall"

\* The canonical working copy as the run found it.
FoundChanges == snap.dirs[INSTALL_DIR].changes
\* The operator was asked and gave an affirmative answer ('y' or 'Y').
SaidYes == resp \in {"y", "Y"}
\* A directory that held uncommitted local edits when the run started.
HadEdits(d) == snap.dirs[d].kind = "repo" /\ snap.dirs[d].changes # {}
Exists(d) == dirs[d].kind # "absent"

\* C1: in safe_git_update, reset --hard and clean -fd run on a working copy
\* with uncommitted changes other than the manifest file only after the
\* operator has answered yes to the prompt of the same run.
C1_ResetOnlyAfterConsent ==
    (Installing /\ (Ran("reset") \/ Ran("clean"))
       /\ FoundChanges \ {ManifestPath} # {})
    => SaidYes

\* C2: pull failed, fetch succeeded, the status query shows a modified
\* non-manifest file and the operator answers anything but yes: no abort, no
\* reset, no clean, the working copy is as it was, and the run reports
\* "cancelled" and not an update.
C2_DeclineLeavesWorkingCopy ==
    (Installing /\ "pull" \in gitFailed /\ Ran("fetch") /\ "fetch" \notin gitFailed
       /\ status.ok /\ StatusLine(HooksDoc) \in status.lines
       /\ resp \in Answers \ {"y", "Y"})
    => /\ Ops(gitLog) \cap {"merge_abort", "rebase_abort", "reset", "clean"} = {}
       /\ dirs = snap.dirs
       /\ "cancelled" \in out
       /\ out \cap {"clean_state_ok", "installed"} = {}
       /\ pc = "done"

C2_Witness ==
    /\ Installing /\ pc = "done" /\ resp = "n"
    /\ status.ok /\ StatusLine(HooksDoc) \in status.lines
    /\ "cancelled" \in out

\* C3: when the status query lists only the manifest file, the update goes
\* on to reset --hard and clean -fd without prompting; and the prompt is
\* skipped only when every changed path is the manifest file.
C3_PromptSkippedOnlyForManifest ==
    /\ (Installing /\ status.ok /\ status.lines = {StatusLine(ManifestPath)})
       => /\ resp = "none"
          /\ pc \in {"merge_abort", "rebase_abort", "reset"} \/ Ran("reset")
          /\ pc \in {"merge_abort", "rebase_abort", "reset", "clean"} \/ Ran("clean")
    /\ (Installing /\ Ran("merge_abort") /\ resp = "none")
       => FoundChanges \subseteq {ManifestPath}

\* C4: after the clone of a migration succeeds, the prior installation is
\* left in place exactly when its working copy has uncommitted changes and
\* is deleted otherwise (unless the removal itself fails); and no installer
\* run deletes a discovered directory that holds uncommitted local edits.
C4_MigrationPreservesEdits ==
    /\ (Installing /\ "migration_complete" \in out)
       => /\ HadEdits(installs[1]) => Exists(installs[1])
          /\ (~HadEdits(installs[1]) /\ "old_not_removed" \notin out)
             => ~Exists(installs[1])
    /\ Installing => \A d \in deleted : ~HadEdits(d)

\* C5: if the clone fails, the installer exits non-zero and has written no
\* command file, modified no settings and deleted no directory.
C5_CloneFailureLeavesNothing ==
    (Installing /\ "clone" \in gitFailed)
    => /\ pc = "done" /\ exitCode = 1
       /\ cmdFile = snap.cmdFile
       /\ settings = snap.settings
       /\ deleted = {}
       /\ dirs = snap.dirs

C5_Witness ==
    /\ Installing /\ "clone" \in gitFailed /\ installs # <<>>
    /\ Exists(installs[1]) /\ ~HadEdits(installs[1])

\* C6: with a valid mirror at the canonical path and both pull and fetch
\* failing, the update stops with a warning, the working copy is left as it
\* was, and the installer does not end with a failure exit status.
C6_OfflineUpdateNotFatal ==
    (Installing /\ "pull" \in gitFailed /\ "fetch" \in gitFailed)
    => /\ pc = "done"
       /\ "warn_offline" \in out
       /\ Ops(gitLog) \cap {"reset", "clean"} = {}
       /\ dirs = snap.dirs
       /\ exitCode = 0

\* C7: at the end of every successful installer run, whatever the settings
\* were, hooks.PreToolUse holds exactly one entry with a command that
\* contains the marker.
MarkedEntries(s) == {i \in 1..Len(s.pre) : EntryHasMarker(s.pre[i])}

C7_OneMarkedEntry ==
    (Installing /\ pc = "done" /\ exitCode = 0)
    => /\ settings.st = "json" /\ settings.hasHooks /\ settings.hasPre
       /\ Cardinality(MarkedEntries(settings)) = 1

C7_Witness ==
    /\ Installing /\ pc = "done" /\ exitCode = 0
    /\ Cardinality(MarkedEntries(snap.settings)) >= 2

\* C8: on well-formed settings, setup_hooks and remove_hooks leave every
\* other top-level key, every other event list under hooks, and every hook
\* command of hooks.PreToolUse without the marker in place, in order.
UnmarkedCommands(s) ==
    SelectSeq(Commands(s.pre), LAMBDA c : ~Contains(c, <<Marker>>))
SettingsRewritten ==
    \/ Installing /\ "settings_updated" \in out
    \/ Uninstalling /\ SaidYes /\ pc \in {"u_dirs", "done"}

C8_OnlyMarkedCommandsTouched ==
    (SettingsRewritten /\ snap.settings.st = "json")
    => /\ settings.st = "json"
       /\ settings.other = snap.settings.other
       /\ settings.post = snap.settings.post
       /\ UnmarkedCommands(settings) = UnmarkedCommands(snap.settings)

\* C9 (as stated): with a settings file that is not valid JSON, the
\* installer's hook upsert and the uninstaller's hook removal both treat it
\* as empty settings, overwrite it and do not fail the run.
C9_BothOverwriteMalformed ==
    (SettingsRewritten /\ snap.settings.st = "malformed")
    => /\ settings.st = "json"
       /\ pc = "done" => exitCode = 0

\* C9 (amended): with a settings file that is not valid JSON, the installer's
\* hook upsert writes the settings of an empty object plus its own entry;
\* the uninstaller's hook removal copies the file to the backup, leaves it
\* as it is and reports a warning; neither fails the run.
C9_MalformedSettings ==
    /\ (Installing /\ "settings_updated" \in out /\ snap.settings.st = "malformed")
       => /\ settings = Json(FALSE, FALSE, <<NewEntry>>)
          /\ "invalid_settings" \in out
          /\ pc = "done" => exitCode = 0
    /\ (Uninstalling /\ SaidYes /\ pc \in {"u_dirs", "done"}
          /\ snap.settings.st = "malformed")
       => /\ settings = snap.settings
          /\ backup = snap.settings
          /\ "hooks_not_removed" \in out
          /\ pc = "done" => (exitCode = 0 /\ "uninstall_warnings" \in out)

C9_Witness ==
    /\ Uninstalling /\ SaidYes /\ pc = "done"
    /\ snap.settings.st = "malformed"

\* C10 (as stated, for runs in which no marker update fails): of two
\* hook-checks that start less than 3 hours apart at most one fetches, and
\* the second performs no operation and changes no state.
Fetched(r) == "fetch" \in Ops(r.ops)
NoOp(r) == r.ops = <<>> /\ r.after = r.before
Pairs == {p \in (1..Len(hist)) \X (1..Len(hist)) : p[1] < p[2]}
Close(p) == hist[p[2]].start - hist[p[1]].start < CHECK_INTERVAL

C10_SecondIsNoOp ==
    \A p \in Pairs :
        (Close(p) /\ "touch" \notin hist[p[1]].failed \cup hist[p[2]].failed)
        => /\ ~(Fetched(hist[p[1]]) /\ Fetched(hist[p[2]]))
           /\ NoOp(hist[p[2]])

\* C10 (amended): of two hook-checks that start less than 3 hours apart at
\* most one fetches; when the first ran the check (it updated the marker and
\* fetched), the second performs no operation and changes no state.
C10_AtMostOneCheck ==
    \A p \in Pairs :
        Close(p)
        => /\ ~(Fetched(hist[p[1]]) /\ Fetched(hist[p[2]]))
           /\ Fetched(hist[p[1]]) => NoOp(hist[p[2]])

C10_Witness ==
    /\ Len(hist) >= 2
    /\ hist[2].start - hist[1].start = CHECK_INTERVAL - 1
    /\ Fetched(hist[1])
    /\ hist[1].after.marker # hist[1].before.marker
    /\ NoOp(hist[2])

\* C11 (as stated): of two hook-check processes that overlap in time and
\* both start while the marker is absent or at least 3 hours old, at most
\* one runs the remote check, whatever the interleaving of their steps.
RanCheck(p) == "fetch" \in procs[p].ops
BothStale == \A p \in Procs : procs[p].pc # "idle" /\ procs[p].stale
Overlapping == \E p \in Procs : procs[p].overlaps

C11_AtMostOneOfOverlapping ==
    (Overlapping /\ BothStale) => ~(\A p \in Procs : RanCheck(p))

\* C11 (amended): a hook-check that reads the marker after another process
\* has updated it, and less than 3 hours after that update, does not run the
\* remote check; so two overlapping hook-checks both run the check only when
\* each read the marker before the other had updated it (or 3 hours passed
\* in between).
C11_NoRetriggerAfterUpdate ==
    \A p \in Procs :
        (procs[p].pc \notin {"idle", "exists", "stat"} /\ procs[p].seen # {})
        => /\ ~procs[p].check
           /\ procs[p].ops = {}
           /\ procs[p].pc = "done"

C11_Witness ==
    /\ Overlapping /\ BothStale
    /\ \E p \in Procs : \E q \in procs[p].seen :
         /\ procs[p].pc = "done" /\ ~procs[p].check
         /\ RanCheck(q)

\* C12: a hook-check never disrupts the host tool: whatever the outcomes of
\* the marker update, the fetch, the behind count and the pull, it prints
\* nothing and ends with exit status 0.
C12_HookSilentAndZero ==
    /\ hout = {}
    /\ \A i \in 1..Len(hist) : hist[i].out = {} /\ hist[i].exit = 0

\* C13: the freshness check always fetches, and counts only after a fetch
\* that succeeded; when the count yields k > 0 it reports "k update(s)
\* available" and pulls, and after a pull that succeeds the behind count is
\* 0; when the count yields 0 it reports up to date and does not pull; it
\* pulls in no other case.  k is the number of commits of the remote
\* tracking branch that the local branch lacks.
Behind(st) == st.tracking - st.local
Did(r, op) == op \in Ops(r.ops) \ r.failed

C13_FreshnessCheck ==
    \A i \in 1..Len(hist) :
        LET r == hist[i]
        IN /\ Len(r.ops) >= 2 /\ r.ops[2] = "fetch"
           /\ "rev-list" \in Ops(r.ops) => (r.ops[3] = "rev-list" /\ Did(r, "fetch"))
           /\ r.counted = Did(r, "rev-list")
           /\ (r.counted /\ ~Did(r, "pull")) => r.behind = Behind(r.after)
           /\ (r.counted /\ r.behind > 0)
              => /\ ("[UPDATE] " \o ToString(r.behind) \o " update(s) available")
                      \in r.out
                 /\ "pull" \in Ops(r.ops)
                 /\ Did(r, "pull") => Behind(r.after) = 0
           /\ (r.counted /\ r.behind = 0)
              => /\ "[OK] Already up to date" \in r.out
                 /\ "pull" \notin Ops(r.ops)
           /\ "pull" \in Ops(r.ops) => (r.counted /\ r.behind > 0)

C13_Witness ==
    \E i \in 1..Len(hist) :
        /\ hist[i].before.local = 0 /\ hist[i].behind = 2
        /\ "[UPDATE] 2 update(s) available" \in hist[i].out
        /\ Did(hist[i], "pull")
        /\ Behind(hist[i].after) = 0

\* C14: for every topic T and every set of documents: when no document
\* matches T exactly, by its stem without regard to case, or by T being part
\* of its stem, the lookup returns not-found and every suggested topic has T
\* as a part or is a part of T (case-insensitively); when some document
\* matches, a successful read returns the first document matched in the order
\* exact, case-insensitive, substring.
Matching(t) ==
    {i \in 1..Len(docs) : Contains(LowerStr(docs[i]), LowerStr(t))}
FirstIn(hits) == docs[CHOOSE i \in hits : \A j \in hits : i <= j]
FirstMatch(t) ==
    IF t \in list_topics THEN t
    ELSE LET same == {i \in Matching(t) : LowerStr(docs[i]) = LowerStr(t)}
         IN IF same # {} THEN FirstIn(same) ELSE FirstIn(Matching(t))

C14_LookupResolution ==
    found.kind # "pending"
    => /\ Matching(topic) = {}
          => /\ found.kind = "none"
             /\ \A f \in found.similar :
                  \/ Contains(LowerStr(f), LowerStr(topic))
                  \/ Contains(LowerStr(topic), LowerStr(f))
       /\ (Matching(topic) # {} /\ found.kind # "error")
          => /\ found.kind = "text"
             /\ found.file = DocFile(FirstMatch(topic))

\* C15: after a confirmed uninstall (in which no removal failed and the
\* settings were readable), every discovered directory that was a working
\* copy with uncommitted changes still exists and was reported as preserved,
\* every other discovered directory is gone, and the command file and the
\* marked hook entries are removed.
Discovered == Ops(installs)
UninstallDone == Uninstalling /\ SaidYes /\ pc = "done"
NothingFailed ==
    /\ out \cap {"dir_not_removed", "command_not_removed"} = {}
    /\ snap.settings.st # "malformed"

C15_UninstallPreservesEdits ==
    (UninstallDone /\ NothingFailed)
    => /\ \A d \in Discovered :
            /\ HadEdits(d) => (Exists(d) /\ d \in reported)
            /\ ~HadEdits(d) => ~Exists(d)
       /\ cmdFile = NoDir
       /\ MarkedEntries(settings) = {}

\* C16: the uninstaller deletes no command file, writes neither the settings
\* file nor its backup and deletes no directory before the operator has
\* answered yes; after any other answer, or an interrupt at the prompt, the
\* run is over, reports the cancellation, and the command file, the settings
\* file and all directories are as they were before the run.
C16_NothingBeforeYes ==
    (Uninstalling /\ ~SaidYes)
    => /\ cmdFile = snap.cmdFile
       /\ settings = snap.settings
       /\ backup = snap.backup
       /\ dirs = snap.dirs
       /\ deleted = {}
       /\ resp # "none" => (pc = "done" /\ exitCode = 0 /\ "u_cancelled" \in out)

C16_Witness ==
    /\ Uninstalling /\ pc = "done" /\ resp = Interrupt
    /\ cmdFile # NoDir
    /\ MarkedEntries(settings) # {}
    /\ \E d \in Discovered : Exists(d) /\ ~HadEdits(d)

\* C17: a confirmed uninstall that follows an uninstall which completed
\* without warning leaves the command file absent and the settings as they
\* were, and completes without warning as well, also when the settings file
\* that remained has no 'hooks' key.
C17_UninstallIdempotent ==
    (UninstallDone /\ snap.last = "complete")
    => /\ cmdFile = NoDir
       /\ settings = snap.settings
       /\ "uninstall_complete" \in out
       /\ "uninstall_warnings" \notin out

\* C18: every run of safe_git_update is one pass through the sequence pull,
\* fetch, status, prompt, merge --abort, rebase --abort, reset --hard,
\* clean -fd, and it ends: after a pull that succeeds nothing else of the
\* sequence happens and the update has succeeded; otherwise the commands run
\* in this order only, the prompt comes at most once (between status and
\* merge --abort), the status query runs only after a fetch that succeeded,
\* and the aborts, the reset and the clean run only if moreover the operator
\* was not asked or answered yes.
UpdateOrder ==
    <<"pull", "fetch", "status", "merge_abort", "rebase_abort", "reset", "clean">>
InUpdate ==
    pc \in {"pull", "fetch", "status", "prompt", "merge_abort", "rebase_abort",
            "reset", "clean"}
Destructive == Ops(gitLog) \cap {"merge_abort", "rebase_abort", "reset", "clean"}

C18_Linear ==
    (Installing /\ (InUpdate \/ Ran("pull")))
    => /\ Len(gitLog) <= Len(UpdateOrder)
       /\ gitLog = SubSeq(UpdateOrder, 1, Len(gitLog))
       /\ (Ran("pull") /\ "pull" \notin gitFailed)
          => (gitLog = <<"pull">> /\ resp = "none" /\ ~InUpdate /\ exitCode # 1)
       /\ pc = "prompt" => (gitLog = SubSeq(UpdateOrder, 1, 3) /\ resp = "none")
       /\ resp # "none" => (Ran("status") /\ pc # "prompt")
       /\ Ran("status") => "fetch" \notin gitFailed
       /\ (Destructive # {} \/ pc \in {"merge_abort", "rebase_abort", "reset", "clean"})
          => /\ "fetch" \notin gitFailed
             /\ resp = "none" \/ SaidYes

C18_LinearAndTerminates ==
    /\ []C18_Linear
    /\ InUpdate ~> ~InUpdate

C18_Witness ==
    /\ Installing /\ SaidYes
    /\ gitLog = UpdateOrder
    /\ ~InUpdate

\* C19: whenever safe_git_update reports success, the working copy is a
\* clean mirror: on the fallback path ("Updated successfully to clean state")
\* both reset --hard and clean -fd succeeded and no uncommitted change is
\* left.
C19_SuccessMeansCleanMirror ==
    (Installing /\ "clean_state_ok" \in out)
    => /\ gitFailed \cap {"reset", "clean"} = {}
       /\ dirs[INSTALL_DIR].changes = {}

\* C20: in an installer run, by migration or by cleanup, a discovered prior
\* installation is deleted only if it was a working copy without uncommitted
\* changes: a directory that is not a working copy is never deleted, nor one
\* whose changes a failed status query could not show.
WasCleanRepo(d) == snap.dirs[d].kind = "repo" /\ snap.dirs[d].changes = {}

C20_OnePolicyForOldDirs ==
    Installing => \A d \in deleted : WasCleanRepo(d)

\* C21: a hook-check that is not throttled updates the marker before the
\* remote check, and the update stays whatever the check's outcome: every
\* hook-check that fetched began with a marker update that succeeded and
\* left the marker at a time not before its start; after a hook-check whose
\* fetch failed, a later hook-check fetches only if it starts at least 3
\* hours after that marker update; and a throttled hook-check leaves the
\* marker as it found it.
Throttled(r) ==
    r.before.marker.exists /\ r.start - r.before.marker.mtime < CHECK_INTERVAL

C21_MarkerFirstWhateverOutcome ==
    /\ \A i \in 1..Len(hist) :
         LET r == hist[i]
         IN /\ Fetched(r)
               => /\ r.ops[1] = "touch" /\ "touch" \notin r.failed
                  /\ ~Throttled(r)
                  /\ r.after.marker.exists
                  /\ r.after.marker.mtime >= r.start
            /\ Throttled(r) => (r.ops = <<>> /\ r.after.marker = r.before.marker)
            /\ (~Throttled(r) /\ "touch" \notin r.failed)
               => (r.ops # <<>> /\ r.ops[1] = "touch" /\ Fetched(r))
    /\ \A p \in Pairs :
         ("fetch" \in hist[p[1]].failed /\ Fetched(hist[p[2]]))
         => hist[p[2]].start - hist[p[1]].after.marker.mtime >= CHECK_INTERVAL
    /\ hpc \in {"fetch", "count", "pull"}
       => (hops[1] = "touch" /\ marker.exists /\ marker.mtime >= hstart)

C21_Witness ==
    /\ Len(hist) >= 2
    /\ "fetch" \in hist[1].failed
    /\ hist[2].start > hist[1].after.marker.mtime
    /\ Throttled(hist[2])
    /\ hist[2].after.marker = hist[1].after.marker

====
